---------------------------- MODULE Spec2Model ----------------------------
(***************************************************************************)
(* A model of pdf_to_epub.py: the Line Grouper and Paragraph Segmenter of  *)
(* extract_paragraphs_from_page, the Page/Chapter Aggregator create_epub,  *)
(* the HTML Renderer text_to_html and the command-line driver main.        *)
(*                                                                         *)
(* Python strings are sequences of one-character strings, so that strip,   *)
(* split, join, startswith, endswith and html.escape are computed on the   *)
(* characters as Python computes them.  Coordinates are integers: x0 in    *)
(* whole units, `top` in hundredths of a unit.                             *)
(***************************************************************************)
EXTENDS Integers, Sequences, FiniteSets, TLC

VARIABLES
    \* extract_paragraphs_from_page, lines 46-64 (the Line Grouper)
    words, gi, lines_by_top, glines, gpc,
    \* extract_paragraphs_from_page, lines 66-96 (the Paragraph Segmenter)
    lines, indent_threshold, max_body_x0, si, paragraphs, current_para_lines, spc,
    \* create_epub
    pages, chapter_pages, ei, chapters, spine, toc, book_items, epc,
    \* text_to_html
    text, candidates, hi, html_parts, html_result, hpc,
    \* main
    mpc, input_exists, suffix_is_pdf, output_arg, verbose, writer_fails,
    output_path, extraction, assembly, exit_code, stderr, stdout, calls, output_file

gVars == <<words, gi, lines_by_top, glines, gpc>>
sVars == <<lines, indent_threshold, max_body_x0, si, paragraphs, current_para_lines, spc>>
eVars == <<pages, chapter_pages, ei, chapters, spine, toc, book_items, epc>>
hVars == <<text, candidates, hi, html_parts, html_result, hpc>>
mVars == <<mpc, input_exists, suffix_is_pdf, output_arg, verbose, writer_fails,
           output_path, extraction, assembly, exit_code, stderr, stdout, calls, output_file>>
vars == <<gVars, sVars, eVars, hVars, mVars>>

(***************************************************************************)
(* Python string primitives                                                *)
(***************************************************************************)
NL == "\n"

\* str.isspace for one character of the model's alphabet
IsSpace(c) == c \in {" ", NL}

RECURSIVE LStrip(_)
LStrip(s) ==
    IF s = <<>> THEN <<>>
    ELSE IF IsSpace(Head(s)) THEN LStrip(Tail(s))
    ELSE s

RECURSIVE RStrip(_)
RStrip(s) ==
    IF s = <<>> THEN <<>>
    ELSE IF IsSpace(s[Len(s)]) THEN RStrip(SubSeq(s, 1, Len(s) - 1))
    ELSE s

\* str.strip()
Strip(s) == RStrip(LStrip(s))

\* str.startswith(p)
StartsWith(s, p) == Len(p) <= Len(s) /\ SubSeq(s, 1, Len(p)) = p

\* str.endswith(p)
EndsWith(s, p) == Len(p) <= Len(s) /\ SubSeq(s, Len(s) - Len(p) + 1, Len(s)) = p

\* sep.join(parts)
RECURSIVE Join(_, _)
Join(parts, sep) ==
    IF parts = <<>> THEN <<>>
    ELSE IF Len(parts) = 1 THEN parts[1]
    ELSE parts[1] \o sep \o Join(Tail(parts), sep)

\* the least index at or after `from` where sep occurs in s, 0 when there is none
RECURSIVE Find(_, _, _)
Find(s, sep, from) ==
    IF from + Len(sep) - 1 > Len(s) THEN 0
    ELSE IF SubSeq(s, from, from + Len(sep) - 1) = sep THEN from
    ELSE Find(s, sep, from + 1)

\* str.split(sep): left to right, non-overlapping, empty pieces kept
RECURSIVE Split(_, _)
Split(s, sep) ==
    LET k == Find(s, sep, 1) IN
    IF k = 0 THEN <<s>>
    ELSE <<SubSeq(s, 1, k - 1)>> \o Split(SubSeq(s, k + Len(sep), Len(s)), sep)

\* str.split(sep, 1)
Split1(s, sep) ==
    LET k == Find(s, sep, 1) IN
    IF k = 0 THEN <<s>>
    ELSE <<SubSeq(s, 1, k - 1), SubSeq(s, k + Len(sep), Len(s))>>

\* html.escape(c) for one character (quote=True)
EscapeChar(c) ==
    CASE c = "&" -> <<"&", "a", "m", "p", ";">>
      [] c = "<" -> <<"&", "l", "t", ";">>
      [] c = ">" -> <<"&", "g", "t", ";">>
      [] c = "\"" -> <<"&", "q", "u", "o", "t", ";">>
      [] c = "'" -> <<"&", "#", "x", "2", "7", ";">>
      [] OTHER -> <<c>>

\* html.escape(s)
RECURSIVE Escape(_)
Escape(s) ==
    IF s = <<>> THEN <<>> ELSE EscapeChar(Head(s)) \o Escape(Tail(s))

\* all sequences over S of length at most n
RECURSIVE SeqsUpTo(_, _)
SeqsUpTo(S, n) ==
    IF n = 0 THEN {<<>>}
    ELSE LET shorter == SeqsUpTo(S, n - 1) IN
         shorter \cup {Append(q, x) : q \in {r \in shorter : Len(r) = n - 1}, x \in S}

(***************************************************************************)
(* Idle values of a component a specification does not run                 *)
(***************************************************************************)
GrouperIdle ==
    /\ words = <<>> /\ gi = 0 /\ lines_by_top = <<>> /\ glines = <<>> /\ gpc = "idle"

SegmenterIdle ==
    /\ lines = <<>> /\ indent_threshold = 0 /\ max_body_x0 = 0 /\ si = 0
    /\ paragraphs = <<>> /\ current_para_lines = <<>> /\ spc = "idle"

EpubIdle ==
    /\ pages = <<>> /\ chapter_pages = 1 /\ ei = 0 /\ chapters = <<>>
    /\ spine = <<>> /\ toc = <<>> /\ book_items = <<>> /\ epc = "idle"

HtmlIdle ==
    /\ text = <<>> /\ candidates = <<>> /\ hi = 0 /\ html_parts = <<>>
    /\ html_result = <<>> /\ hpc = "idle"

MainIdle ==
    /\ mpc = "idle" /\ input_exists = FALSE /\ suffix_is_pdf = FALSE
    /\ output_arg = FALSE /\ verbose = FALSE /\ writer_fails = FALSE
    /\ output_path = "unset" /\ extraction = "none" /\ assembly = "none"
    /\ exit_code = -1 /\ stderr = <<>> /\ stdout = <<>>
    /\ calls = <<>> /\ output_file = "none"

(***************************************************************************)
(* The Paragraph Segmenter: extract_paragraphs_from_page, lines 66-96      *)
(***************************************************************************)
MaxLines == 4

DefaultIndentThreshold == 45
DefaultMaxBodyX0 == 100

\* x0 of a line: left of the indent, indented, right of the body
LineX0s == {30, 50, 120}

\* line texts: plain, padded with blanks, blank only
LineTexts == {<<"a">>, <<" ", "b", " ">>, <<" ">>}

\* (indent_threshold, max_body_x0): the defaults, a narrow body, a wide indent
Thresholds == {<<DefaultIndentThreshold, DefaultMaxBodyX0>>,
               <<DefaultIndentThreshold, 40>>,
               <<110, DefaultMaxBodyX0>>}

Line(x, t) == [x0 |-> x, text |-> t]

\* the lines of a page: every text left of the indent and indented, one text
\* right of the body
LineChoices ==
    {Line(x, t) : x \in LineX0s \ {120}, t \in LineTexts} \cup {Line(120, <<"a">>)}

\* SegLine without the "and current_para_lines" test: an indented first body line
\* closes an empty accumulation
SegLine_CloseEmpty(acc, line, it, mb) ==
    LET x0 == line.x0
        t  == Strip(line.text)
    IN  IF t = <<>> THEN acc
        ELSE IF x0 > mb THEN acc
        ELSE IF x0 > it
             THEN [paragraphs |-> Append(acc.paragraphs, Join(acc.current, <<" ">>)),
                   current    |-> <<t>>]
             ELSE [paragraphs |-> acc.paragraphs,
                   current    |-> Append(acc.current, t)]

\* SegLine where a line right of the body ends the paragraph being accumulated
SegLine_SkipBreaks(acc, line, it, mb) ==
    LET x0 == line.x0
        t  == Strip(line.text)
    IN  IF t = <<>> THEN acc
        ELSE IF x0 > mb
             THEN IF acc.current = <<>> THEN acc
                  ELSE [paragraphs |-> Append(acc.paragraphs, Join(acc.current, <<" ">>)),
                        current    |-> <<>>]
        ELSE IF x0 > it /\ acc.current # <<>>
             THEN [paragraphs |-> Append(acc.paragraphs, Join(acc.current, <<" ">>)),
                   current    |-> <<t>>]
             ELSE [paragraphs |-> acc.paragraphs,
                   current    |-> Append(acc.current, t)]

\* one pass of the loop body over `line`, from the accumulators acc
SegLine(acc, line, it, mb) ==
    LET x0 == line.x0
        t  == Strip(line.text)
        is_para_start == x0 > it
    IN  IF t = <<>> THEN acc
        ELSE IF x0 > mb THEN acc
        ELSE IF is_para_start /\ acc.current # <<>>
             THEN [paragraphs |-> Append(acc.paragraphs, Join(acc.current, <<" ">>)),
                   current    |-> <<t>>]
             ELSE [paragraphs |-> acc.paragraphs,
                   current    |-> Append(acc.current, t)]

\* "Don't forget the last paragraph"
SegFlush(acc) ==
    IF acc.current # <<>>
    THEN Append(acc.paragraphs, Join(acc.current, <<" ">>))
    ELSE acc.paragraphs

RECURSIVE SegFold(_, _, _, _)
SegFold(acc, ls, it, mb) ==
    IF ls = <<>> THEN acc
    ELSE SegFold(SegLine(acc, Head(ls), it, mb), Tail(ls), it, mb)

\* the whole function, on an ordered Line sequence
ExtractParagraphs(ls, it, mb) ==
    SegFlush(SegFold([paragraphs |-> <<>>, current |-> <<>>], ls, it, mb))

SegInit ==
    /\ lines \in SeqsUpTo(LineChoices, MaxLines)
    /\ \E th \in Thresholds : indent_threshold = th[1] /\ max_body_x0 = th[2]
    /\ si = 1
    /\ paragraphs = <<>>
    /\ current_para_lines = <<>>
    /\ spc = "loop"

\* for line in lines: ...
ProcessLine ==
    /\ spc = "loop"
    /\ si <= Len(lines)
    /\ LET acc == SegLine([paragraphs |-> paragraphs, current |-> current_para_lines],
                          lines[si], indent_threshold, max_body_x0)
       IN  /\ paragraphs' = acc.paragraphs
           /\ current_para_lines' = acc.current
    /\ si' = si + 1
    /\ UNCHANGED <<lines, indent_threshold, max_body_x0, spc>>
    /\ UNCHANGED <<gVars, eVars, hVars, mVars>>

\* if current_para_lines: paragraphs.append(...); return paragraphs
FlushAndReturn ==
    /\ spc = "loop"
    /\ si > Len(lines)
    /\ paragraphs' = SegFlush([paragraphs |-> paragraphs, current |-> current_para_lines])
    /\ spc' = "done"
    /\ UNCHANGED <<lines, indent_threshold, max_body_x0, si, current_para_lines>>
    /\ UNCHANGED <<gVars, eVars, hVars, mVars>>

InitSeg == SegInit /\ GrouperIdle /\ EpubIdle /\ HtmlIdle /\ MainIdle
NextSeg == ProcessLine \/ FlushAndReturn
SpecSeg == InitSeg /\ [][NextSeg]_vars

(***************************************************************************)
(* Claims about the Paragraph Segmenter                                    *)
(***************************************************************************)
\* a body line: non-empty stripped text and x0 <= max_body_x0
IsBodyLine(l) == Strip(l.text) # <<>> /\ l.x0 <= max_body_x0

BodyLines == SelectSeq(lines, IsBodyLine)

\* where paragraphs begin: the first body line and every later indented one
ParaStarts == {k \in 1..Len(BodyLines) : k = 1 \/ BodyLines[k].x0 > indent_threshold}

\* the j-th paragraph start, and the last body line of the paragraph it opens
NthStart(j) == CHOOSE k \in ParaStarts : Cardinality({m \in ParaStarts : m <= k}) = j

LastOf(k) ==
    LET later == {m \in ParaStarts : m > k} IN
    IF later = {} THEN Len(BodyLines)
    ELSE (CHOOSE m \in later : \A n \in later : m <= n) - 1

ExpectedParagraphs ==
    [j \in 1..Cardinality(ParaStarts) |->
        Join([k \in 1..(LastOf(NthStart(j)) - NthStart(j) + 1) |->
                 Strip(BodyLines[NthStart(j) + k - 1].text)], <<" ">>)]

\* the spec's scenario: x0 = [30, 30, 50, 30], indent_threshold = 45
ScenarioLines ==
    <<Line(30, <<"l", "1">>), Line(30, <<"l", "2">>),
      Line(50, <<"l", "3">>), Line(30, <<"l", "4">>)>>

ScenarioParagraphs ==
    ExtractParagraphs(ScenarioLines, DefaultIndentThreshold, DefaultMaxBodyX0)

\* C1: when extract_paragraphs_from_page returns, its paragraphs are the body
\* lines in order, cut before the first body line and before every later body
\* line with x0 > indent_threshold and nowhere else, each paragraph the stripped
\* texts of its lines joined by single spaces; the scenario with x0 =
\* [30, 30, 50, 30] and indent_threshold = 45 gives [l1 l2, l3 l4].
C1_Segmentation ==
    /\ spc = "done" => paragraphs = ExpectedParagraphs
    /\ ScenarioParagraphs = << <<"l", "1", " ", "l", "2">>, <<"l", "3", " ", "l", "4">> >>

\* a returned page with an indented first body line and a later indented line
C1_Witness ==
    /\ spc = "done"
    /\ Len(lines) = 4
    /\ indent_threshold = DefaultIndentThreshold /\ max_body_x0 = DefaultMaxBodyX0
    /\ lines[1].x0 = 50 /\ lines[2].x0 = 30 /\ lines[3].x0 = 50 /\ lines[4].x0 = 30
    /\ \A k \in 1..4 : lines[k].text = <<"a">>
    /\ paragraphs = << <<"a", " ", "a">>, <<"a", " ", "a">> >>

\* the page with every line right of max_body_x0 removed
WithoutRightLines == SelectSeq(lines, LAMBDA l : l.x0 <= max_body_x0)

\* C2: a line with x0 > max_body_x0 contributes nothing: the paragraphs returned
\* for a page are those returned for the page with every such line removed.
C2_RightLinesIgnored ==
    spc = "done" =>
        paragraphs = ExtractParagraphs(WithoutRightLines, indent_threshold, max_body_x0)

\* a line right of the body, itself past the indent threshold, between two
\* lines of one paragraph
C2_Witness ==
    /\ spc = "done"
    /\ Len(lines) = 3
    /\ max_body_x0 = DefaultMaxBodyX0 /\ indent_threshold = DefaultIndentThreshold
    /\ lines[1] = Line(30, <<"a">>)
    /\ lines[2] = Line(120, <<"a">>)
    /\ lines[3] = Line(30, <<"a">>)
    /\ paragraphs = << <<"a", " ", "a">> >>

(***************************************************************************)
(* The HTML Renderer: text_to_html, lines 240-279                          *)
(***************************************************************************)
MaxChunks == 4

BlankLine == <<NL, NL>>
CommentOpen == <<"<", "!", "-", "-">>
CommentClose == <<"-", "-", ">">>
PageMarkerPrefix == <<"<", "!", "-", "-", " ", "P", "a", "g", "e">>

\* f"<p>{escaped}</p>"
PTag(escaped) == <<"<", "p", ">">> \o escaped \o <<"<", "/", "p", ">">>

\* RenderPara without html.escape
RenderPara_NoEscape(para) ==
    LET p == Strip(para) IN
    IF p = <<>> THEN <<>>
    ELSE IF StartsWith(p, CommentOpen) /\ EndsWith(p, CommentClose) THEN <<>>
    ELSE IF StartsWith(p, PageMarkerPrefix)
         THEN LET ls == Split1(p, <<NL>>) IN
              IF Len(ls) > 1
              THEN IF Strip(ls[2]) # <<>> THEN <<PTag(Strip(ls[2]))>> ELSE <<>>
              ELSE <<>>
    ELSE <<PTag(p)>>

\* the loop body for one candidate: the fragments it appends to html_parts
RenderPara(para) ==
    LET p == Strip(para) IN
    IF p = <<>> THEN <<>>
    ELSE IF StartsWith(p, CommentOpen) /\ EndsWith(p, CommentClose) THEN <<>>
    ELSE IF StartsWith(p, PageMarkerPrefix)
         THEN LET ls == Split1(p, <<NL>>) IN
              IF Len(ls) > 1
              THEN IF Strip(ls[2]) # <<>> THEN <<PTag(Escape(Strip(ls[2])))>> ELSE <<>>
              ELSE <<>>
    ELSE <<PTag(Escape(p))>>

RECURSIVE RenderAll(_)
RenderAll(cands) ==
    IF cands = <<>> THEN <<>> ELSE RenderPara(Head(cands)) \o RenderAll(Tail(cands))

\* html_parts when the loop of text_to_html ends
HtmlParts(t) == RenderAll(Split(t, BlankLine))

\* the whole function
TextToHtml(t) == Join(HtmlParts(t), <<NL>>)

\* the pieces chapter blobs are made of
Chunks == {<<"<", "!", "-", "-", " ", "P", "a", "g", "e", " ", "1", " ", "-", "-", ">">>, CommentClose,
           <<NL>>, <<" ">>, <<"a">>, <<"&">>}

RECURSIVE Concat(_)
Concat(ss) == IF ss = <<>> THEN <<>> ELSE Head(ss) \o Concat(Tail(ss))

HtmlInit ==
    /\ text \in {Concat(cs) : cs \in SeqsUpTo(Chunks, MaxChunks)}
    /\ candidates = <<>>
    /\ hi = 0
    /\ html_parts = <<>>
    /\ html_result = <<>>
    /\ hpc = "split"

\* paragraphs = text.split("\n\n")
SplitParagraphs ==
    /\ hpc = "split"
    /\ candidates' = Split(text, BlankLine)
    /\ hi' = 1
    /\ hpc' = "loop"
    /\ UNCHANGED <<text, html_parts, html_result>>
    /\ UNCHANGED <<gVars, sVars, eVars, mVars>>

\* for para in paragraphs: ...
RenderCandidate ==
    /\ hpc = "loop"
    /\ hi <= Len(candidates)
    /\ html_parts' = html_parts \o RenderPara(candidates[hi])
    /\ hi' = hi + 1
    /\ UNCHANGED <<text, candidates, html_result, hpc>>
    /\ UNCHANGED <<gVars, sVars, eVars, mVars>>

\* return "\n".join(html_parts)
ReturnHtml ==
    /\ hpc = "loop"
    /\ hi > Len(candidates)
    /\ html_result' = Join(html_parts, <<NL>>)
    /\ hpc' = "done"
    /\ UNCHANGED <<text, candidates, hi, html_parts>>
    /\ UNCHANGED <<gVars, sVars, eVars, mVars>>

InitHtml == HtmlInit /\ GrouperIdle /\ SegmenterIdle /\ EpubIdle /\ MainIdle
NextHtml == SplitParagraphs \/ RenderCandidate \/ ReturnHtml
SpecHtml == InitHtml /\ [][NextHtml]_vars

(***************************************************************************)
(* Claims about the HTML Renderer                                          *)
(***************************************************************************)
\* a page-boundary marker line, as the renderer recognises one
IsMarkerLine(l) == StartsWith(l, PageMarkerPrefix) /\ Find(l, <<NL>>, 1) = 0

\* what the claim keeps of one candidate: nothing of an empty one or of a
\* standalone marker line, the remainder of one that begins with a marker line,
\* everything of any other
ClaimedKept(cand) ==
    LET p  == Strip(cand)
        ls == Split1(p, <<NL>>)
    IN  IF p = <<>> THEN <<>>
        ELSE IF IsMarkerLine(p) THEN <<>>
        ELSE IF IsMarkerLine(ls[1]) THEN <<PTag(Escape(Strip(ls[2])))>>
        ELSE <<PTag(Escape(p))>>

RECURSIVE ClaimedParts(_)
ClaimedParts(cands) ==
    IF cands = <<>> THEN <<>> ELSE ClaimedKept(Head(cands)) \o ClaimedParts(Tail(cands))

\* C6: text_to_html drops a candidate only if it is empty after trimming or a
\* standalone page-marker line; a candidate that begins with a marker line
\* followed by content loses only that line; every other candidate is kept whole;
\* each surviving candidate yields one <p> fragment, in input order.
C6_NoContentDropped ==
    hpc = "done" => html_parts = ClaimedParts(Split(text, BlankLine))

\* the spec's rendering scenario holds of the code: two fragments, no marker
C6_ScenarioRendered ==
    HtmlParts(<<"<", "!", "-", "-", " ", "P", "a", "g", "e", " ", "1", " ", "-", "-", ">", "\n", "H", "e", "l", "l", "o", " ", "w", "o", "r", "l", "d", ".", "\n", "\n", "<", "!", "-", "-", " ", "P", "a", "g", "e", " ", "2", " ", "-", "-", ">", "\n", "G", "o", "o", "d", "b", "y", "e", ".">>)
        = <<PTag(<<"H", "e", "l", "l", "o", " ", "w", "o", "r", "l", "d", ".">>), PTag(<<"G", "o", "o", "d", "b", "y", "e", ".">>)>>

(***************************************************************************)
(* The Page/Chapter Aggregator: create_epub, lines 126-237                 *)
(***************************************************************************)
MaxPages == 3
MaxChapterPages == 2

DigitChar(d) ==
    CASE d = 0 -> "0" [] d = 1 -> "1" [] d = 2 -> "2" [] d = 3 -> "3" [] d = 4 -> "4"
      [] d = 5 -> "5" [] d = 6 -> "6" [] d = 7 -> "7" [] d = 8 -> "8" [] d = 9 -> "9"

\* str(n) for n >= 0, as in f"{n}"
RECURSIVE Str(_)
Str(n) == IF n < 10 THEN <<DigitChar(n)>> ELSE Str(n \div 10) \o <<DigitChar(n % 10)>>

\* f"{n:04d}" for n >= 0
Pad4(n) == LET d == Str(n) IN
    IF Len(d) >= 4 THEN d ELSE [k \in 1..(4 - Len(d)) |-> "0"] \o d

\* f"Chapter {chapter_num}"
ChapterTitle(n) == <<"C", "h", "a", "p", "t", "e", "r", " ">> \o Str(n)

\* f"chapter_{chapter_num:04d}.xhtml"
ChapterFileName(n) == <<"c", "h", "a", "p", "t", "e", "r", "_">> \o Pad4(n) \o <<".", "x", "h", "t", "m", "l">>

\* f"<!-- Page {p['page_number']} -->\n{p['text']}"
PageBlock(p) == <<"<", "!", "-", "-", " ", "P", "a", "g", "e", " ">> \o Str(p.page_number) \o <<" ", "-", "-", ">">> \o <<NL>> \o p.text

\* the Page records extract_text_from_pdf builds from each page's paragraphs
MkPages(paras) ==
    [k \in 1..Len(paras) |->
        [page_number |-> k, paragraphs |-> paras[k], text |-> Join(paras[k], BlankLine)]]

\* an item of the book: a chapter document, or a navigation file
Item(kind, title, file_name, html) ==
    [kind |-> kind, title |-> title, file_name |-> file_name, html |-> html]

NavItem == Item("nav", <<>>, <<>>, <<>>)
NcxItem == Item("ncx", <<>>, <<>>, <<>>)

\* chapter_num of the group that starts at 0-based page index i, numbered by page index
ChapterNumAt_PageIndex(i, cp) == i + 1

\* chapter_num = (i // chapter_pages) + 1
ChapterNumAt(i, cp) == (i \div cp) + 1

\* pages[i:i + chapter_pages]
PageSlice(pgs, i, cp) ==
    SubSeq(pgs, i + 1, IF i + cp < Len(pgs) THEN i + cp ELSE Len(pgs))

\* "\n\n".join(block(p) for p in chapter_pages_content if p['text'])
ChapterText(content) ==
    LET withText == SelectSeq(content, LAMBDA p : p.text # <<>>) IN
    Join([k \in 1..Len(withText) |-> PageBlock(withText[k])], BlankLine)

\* the chapter built from the group at page index i
ChapterAt(i, pgs, cp) ==
    Item("chapter", ChapterTitle(ChapterNumAt(i, cp)), ChapterFileName(ChapterNumAt(i, cp)),
         TextToHtml(ChapterText(PageSlice(pgs, i, cp))))

\* EpubStep without "if not chapter_text.strip(): continue"
EpubStep_KeepEmpty(st, i, pgs, cp) ==
    [chapters   |-> Append(st.chapters, ChapterAt(i, pgs, cp)),
     spine      |-> Append(st.spine, ChapterAt(i, pgs, cp)),
     book_items |-> Append(st.book_items, ChapterAt(i, pgs, cp))]

\* EpubStep numbering the chapters it emits 1, 2, ... as it emits them
EpubStep_Sequential(st, i, pgs, cp) ==
    LET n  == Len(st.chapters) + 1
        ch == Item("chapter", ChapterTitle(n), ChapterFileName(n),
                   TextToHtml(ChapterText(PageSlice(pgs, i, cp))))
    IN  IF Strip(ChapterText(PageSlice(pgs, i, cp))) = <<>> THEN st
        ELSE [chapters   |-> Append(st.chapters, ch),
              spine      |-> Append(st.spine, ch),
              book_items |-> Append(st.book_items, ch)]

\* one pass of the loop body, for the group at 0-based page index i
EpubStep(st, i, pgs, cp) ==
    IF Strip(ChapterText(PageSlice(pgs, i, cp))) = <<>> THEN st
    ELSE [chapters   |-> Append(st.chapters, ChapterAt(i, pgs, cp)),
          spine      |-> Append(st.spine, ChapterAt(i, pgs, cp)),
          book_items |-> Append(st.book_items, ChapterAt(i, pgs, cp))]

EpubStart == [chapters |-> <<>>, spine |-> <<NavItem>>, book_items |-> <<>>]

\* for i in range(0, len(pages), chapter_pages): ...
RECURSIVE EpubFold(_, _, _, _)
EpubFold(st, i, pgs, cp) ==
    IF i >= Len(pgs) THEN st ELSE EpubFold(EpubStep(st, i, pgs, cp), i + cp, pgs, cp)

\* the chapters create_epub emits for pgs
CreateEpubChapters(pgs, cp) == EpubFold(EpubStart, 0, pgs, cp).chapters

\* the paragraphs of one page: none, one, two with characters to escape, one
\* with a leading blank, one that ends like a comment
PageParagraphs ==
    {<<>>,
     << <<"a">> >>,
     << <<"a", " ", "<", "b">>, <<"&">> >>,
     << <<" ", "a">> >>,
     << <<"a", "-", "-", ">">> >>}

EpubInit ==
    /\ pages \in {MkPages(ps) : ps \in SeqsUpTo(PageParagraphs, MaxPages)}
    /\ chapter_pages \in 1..MaxChapterPages
    /\ ei = 0
    /\ chapters = <<>>
    /\ spine = <<NavItem>>
    /\ toc = <<>>
    /\ book_items = <<>>
    /\ epc = "loop"

ChapterStep ==
    /\ epc = "loop"
    /\ ei < Len(pages)
    /\ LET st == EpubStep([chapters |-> chapters, spine |-> spine, book_items |-> book_items],
                          ei, pages, chapter_pages)
       IN  /\ chapters' = st.chapters
           /\ spine' = st.spine
           /\ book_items' = st.book_items
    /\ ei' = ei + chapter_pages
    /\ UNCHANGED <<pages, chapter_pages, toc, epc>>
    /\ UNCHANGED <<gVars, sVars, hVars, mVars>>

\* book.toc = tuple(chapters); add EpubNcx, EpubNav; book.spine = spine; write_epub
WriteBook ==
    /\ epc = "loop"
    /\ ei >= Len(pages)
    /\ toc' = chapters
    /\ book_items' = book_items \o <<NcxItem, NavItem>>
    /\ epc' = "done"
    /\ UNCHANGED <<pages, chapter_pages, ei, chapters, spine>>
    /\ UNCHANGED <<gVars, sVars, hVars, mVars>>

InitEpub == EpubInit /\ GrouperIdle /\ SegmenterIdle /\ HtmlIdle /\ MainIdle
NextEpub == ChapterStep \/ WriteBook
SpecEpub == InitEpub /\ [][NextEpub]_vars

(***************************************************************************)
(* Claims about the Page/Chapter Aggregator                                *)
(***************************************************************************)
\* the page groups of size chapter_pages, numbered from 1 by position
NumGroups == (Len(pages) + chapter_pages - 1) \div chapter_pages

GroupPages(g) == {k \in 1..Len(pages) : ((k - 1) \div chapter_pages) + 1 = g}

\* the groups with at least one page of non-empty text
NonEmptyGroups == {g \in 1..NumGroups : \E k \in GroupPages(g) : pages[k].text # <<>>}

NthNonEmptyGroup(j) ==
    CHOOSE g \in NonEmptyGroups : Cardinality({h \in NonEmptyGroups : h <= g}) = j

\* the number a chapter carries in its title and its file name
ChapterNumOf(c) ==
    CHOOSE n \in 1..(Len(pages) + 1) :
        c.title = ChapterTitle(n) /\ c.file_name = ChapterFileName(n)

\* the spec's scenario: 10 pages, pages 7-9 blank
TenPages == MkPages([k \in 1..10 |-> IF k \in 7..9 THEN <<>> ELSE << <<"a">> >>])

TenPagesChapters == CreateEpubChapters(TenPages, 3)

\* C3: create_epub emits (to the book, the TOC and the spine) as many chapters
\* as there are page groups with at least one page of non-empty text; 10 pages
\* with chapter_pages = 3 and pages 7-9 blank give 3 chapters.
C3_ChapterCount ==
    /\ epc = "done" =>
          /\ Len(chapters) = Cardinality(NonEmptyGroups)
          /\ toc = chapters
          /\ spine = <<NavItem>> \o chapters
          /\ SelectSeq(book_items, LAMBDA it : it.kind = "chapter") = chapters
    /\ Len(TenPagesChapters) = 3

\* a finished run where the first group is all blank and the second is not
C3_Witness ==
    /\ epc = "done"
    /\ Len(pages) = 3 /\ chapter_pages = 2
    /\ pages[1].text = <<>> /\ pages[2].text = <<>> /\ pages[3].text # <<>>
    /\ Len(chapters) = 1

\* C4 as stated: the k emitted chapters are numbered 1, 2, ..., k in order, also
\* when page groups were dropped as empty.
C4_NumbersContiguous ==
    epc = "done" =>
        \A j \in 1..Len(chapters) :
            /\ chapters[j].title = ChapterTitle(j)
            /\ chapters[j].file_name = ChapterFileName(j)

\* C4 amended: numbering starts at 1 and is contiguous over the page groups, not
\* over the emitted chapters: the j-th emitted chapter carries a number >= j, and
\* the k emitted chapters are numbered exactly 1..k precisely when the groups
\* 1..k are the non-empty ones, i.e. no group before an emitted one was dropped.
C4_NumbersFollowGroups ==
    epc = "done" =>
        /\ \A j \in 1..Len(chapters) :
              \E n \in j..NumGroups :
                  /\ chapters[j].title = ChapterTitle(n)
                  /\ chapters[j].file_name = ChapterFileName(n)
        /\ (\A j \in 1..Len(chapters) : chapters[j].title = ChapterTitle(j))
              <=> (NonEmptyGroups = 1..Len(chapters))
        /\ (1 \in NonEmptyGroups => chapters[1].title = ChapterTitle(1))

\* a finished run whose only chapter is "Chapter 2": group 1 was dropped
C4_Witness ==
    /\ epc = "done"
    /\ Len(pages) = 2 /\ chapter_pages = 1
    /\ pages[1].text = <<>>
    /\ Len(chapters) = 1
    /\ chapters[1].title = ChapterTitle(2)
    /\ chapters[1].file_name = <<"c", "h", "a", "p", "t", "e", "r", "_", "0", "0", "0", "2", ".", "x", "h", "t", "m", "l">>

\* C5: every emitted chapter carries the position of its page group, (index of
\* the group's first page // chapter_pages) + 1, whether or not earlier groups
\* were dropped; the numbers are strictly increasing and the file names pairwise
\* distinct; with chapter_pages = 1 and N non-empty pages there are N chapters
\* numbered 1..N.
C5_NumberIsGroupPosition ==
    epc = "done" =>
        /\ Len(chapters) = Cardinality(NonEmptyGroups)
        /\ \A j \in 1..Len(chapters) :
              /\ chapters[j].title = ChapterTitle(NthNonEmptyGroup(j))
              /\ chapters[j].file_name = ChapterFileName(NthNonEmptyGroup(j))
        /\ \A j, k \in 1..Len(chapters) :
              j < k => /\ ChapterNumOf(chapters[j]) < ChapterNumOf(chapters[k])
                       /\ chapters[j].file_name # chapters[k].file_name
        /\ (chapter_pages = 1 /\ \A k \in 1..Len(pages) : pages[k].text # <<>>) =>
              /\ Len(chapters) = Len(pages)
              /\ \A j \in 1..Len(chapters) : ChapterNumOf(chapters[j]) = j

\* a finished run of three one-page groups, the first dropped: chapters 2 and 3
C5_Witness ==
    /\ epc = "done"
    /\ Len(pages) = 3 /\ chapter_pages = 1
    /\ pages[1].text = <<>> /\ pages[2].text # <<>> /\ pages[3].text # <<>>
    /\ Len(chapters) = 2
    /\ chapters[1].title = ChapterTitle(2)
    /\ chapters[2].title = ChapterTitle(3)

\* the <p> fragments of a rendered chapter body
Fragments(h) == IF h = <<>> THEN <<>> ELSE Split(h, <<NL>>)

RECURSIVE Flatten(_)
Flatten(ss) == IF ss = <<>> THEN <<>> ELSE Head(ss) \o Flatten(Tail(ss))

\* the paragraphs of the pages lo..hi, in page order then paragraph order
ParagraphsOf(first, last) ==
    Flatten([k \in 1..(last - first + 1) |-> pages[first + k - 1].paragraphs])

Tagged(ps) == [k \in 1..Len(ps) |-> PTag(Escape(ps[k]))]

AllParagraphs == ParagraphsOf(1, Len(pages))

\* the claim's condition on the paragraph strings
PlainParagraphs ==
    \A k \in 1..Len(AllParagraphs) :
        /\ AllParagraphs[k] # <<>>
        /\ Find(AllParagraphs[k], <<NL>>, 1) = 0
        /\ Find(AllParagraphs[k], CommentOpen, 1) = 0
        /\ Find(AllParagraphs[k], CommentClose, 1) = 0

\* no paragraph begins or ends with whitespace
TrimmedParagraphs ==
    \A k \in 1..Len(AllParagraphs) : Strip(AllParagraphs[k]) = AllParagraphs[k]

\* each emitted chapter holds the escaped paragraphs of its own page group, and
\* the chapters together hold every paragraph once, in order
Conserved ==
    /\ \A j \in 1..Len(chapters) :
          LET g  == ChapterNumOf(chapters[j])
              first == (g - 1) * chapter_pages + 1
              last  == IF g * chapter_pages < Len(pages) THEN g * chapter_pages ELSE Len(pages)
          IN  Fragments(chapters[j].html) = Tagged(ParagraphsOf(first, last))
    /\ Flatten([j \in 1..Len(chapters) |-> Fragments(chapters[j].html)])
          = Tagged(AllParagraphs)

MaxWords == 3

\* `top` of a word, in hundredths: either side of the rounding boundaries 0.05
\* and 0.15, and on them
Tops == {4, 5, 6, 14, 15, 16}

WordX0s == {30, 50}

\* the text of the k-th word of a page
WordText(k) == CASE k = 1 -> "a" [] k = 2 -> "b" [] k = 3 -> "c" [] k = 4 -> "d"
                 [] OTHER -> "e"

\* the hundredths h = 10n + 5, below 4.00, whose nearest double lies above n/10 +
\* 0.05, so that round(h/100, 1) goes up; round() takes the others down
HalvesRoundedUp ==
    {5, 45, 55, 65, 75, 105, 135, 155, 175, 185, 235, 245, 275, 285, 295, 335, 345,
     375, 385, 395}

\* round(top, 1) by truncation, in tenths
Round1_Truncate(t) == t \div 10

\* round(top, 1) of top = t/100, in tenths
Round1(t) ==
    IF t % 10 < 5 THEN t \div 10
    ELSE IF t % 10 > 5 THEN (t \div 10) + 1
    ELSE IF t \in HalvesRoundedUp THEN (t \div 10) + 1
    ELSE t \div 10

\* lines_by_top after the loop body for word w
GroupWord(lbt, w) ==
    LET top == Round1(w.top) IN
    IF top \in DOMAIN lbt
    THEN [lbt EXCEPT ![top] = Append(@, w)]
    ELSE [k \in DOMAIN lbt \cup {top} |-> IF k = top THEN <<w>> ELSE lbt[k]]

\* list.insert keeping ws sorted by x0, w after the words of equal x0
RECURSIVE InsertByX0(_, _)
InsertByX0(ws, w) ==
    IF ws = <<>> THEN <<w>>
    ELSE IF w.x0 < Head(ws).x0 THEN <<w>> \o ws
    ELSE <<Head(ws)>> \o InsertByX0(Tail(ws), w)

\* sorted(ws, key=lambda w: w['x0']), a stable sort
RECURSIVE SortByX0(_)
SortByX0(ws) ==
    IF ws = <<>> THEN <<>>
    ELSE InsertByX0(SortByX0(SubSeq(ws, 1, Len(ws) - 1)), ws[Len(ws)])

\* sorted(keys)
RECURSIVE SortedKeys(_)
SortedKeys(K) ==
    IF K = {} THEN <<>>
    ELSE LET least == CHOOSE k \in K : \A m \in K : k <= m IN
         <<least>> \o SortedKeys(K \ {least})

\* the Line of the words keyed by top
LineOfTop(lbt, top) ==
    LET line_words == SortByX0(lbt[top]) IN
    [x0   |-> line_words[1].x0,
     text |-> Join([k \in 1..Len(line_words) |-> <<line_words[k].text>>], <<" ">>),
     top  |-> top]

\* lines, built in ascending order of the keys
BuildLinesOf(lbt) ==
    LET sorted_tops == SortedKeys(DOMAIN lbt) IN
    [k \in 1..Len(sorted_tops) |-> LineOfTop(lbt, sorted_tops[k])]

GroupInit ==
    /\ words \in {[k \in 1..Len(ws) |-> [top |-> ws[k][1], x0 |-> ws[k][2], text |-> WordText(k)]] :
                     ws \in SeqsUpTo(Tops \X WordX0s, MaxWords)}
    /\ gi = 1
    /\ lines_by_top = <<>>
    /\ glines = <<>>
    /\ gpc = "group"

\* for word in words: ...
GroupNextWord ==
    /\ gpc = "group"
    /\ gi <= Len(words)
    /\ lines_by_top' = GroupWord(lines_by_top, words[gi])
    /\ gi' = gi + 1
    /\ UNCHANGED <<words, glines, gpc>>
    /\ UNCHANGED <<sVars, eVars, hVars, mVars>>

\* sorted_tops = sorted(...); for top in sorted_tops: lines.append(...)
BuildLines ==
    /\ gpc = "group"
    /\ gi > Len(words)
    /\ glines' = BuildLinesOf(lines_by_top)
    /\ gpc' = "done"
    /\ UNCHANGED <<words, gi, lines_by_top>>
    /\ UNCHANGED <<sVars, eVars, hVars, mVars>>

InitGroup == GroupInit /\ SegmenterIdle /\ EpubIdle /\ HtmlIdle /\ MainIdle
NextGroup == GroupNextWord \/ BuildLines
SpecGroup == InitGroup /\ [][NextGroup]_vars

(***************************************************************************)
(* Claims about the Line Grouper                                           *)
(***************************************************************************)
\* the Lines whose text holds the k-th word
LinesHolding(k) == {n \in 1..Len(glines) : Find(glines[n].text, <<WordText(k)>>, 1) # 0}

SameLine(j, k) == LinesHolding(j) \cap LinesHolding(k) # {}

\* the words of the line that holds the k-th word
LineMates(k) == {j \in 1..Len(words) : SameLine(j, k)}

Dist(a, b) == IF a < b THEN b - a ELSE a - b

\* C9 as stated: two words whose tops differ by less than 0.05 are in the same
\* Line, and a word is a singleton Line only when no other word lies within 0.05.
C9_WithinToleranceSameLine ==
    gpc = "done" =>
        \A j, k \in 1..Len(words) :
            /\ Dist(words[j].top, words[k].top) < 5 => SameLine(j, k)
            /\ (j # k /\ LineMates(k) = {k}) => Dist(words[j].top, words[k].top) >= 5

\* some n with 10n - 5 < a, b < 10n + 5: both strictly inside one rounding cell
SameCell(a, b) ==
    \E n \in 0..((a \div 10) + 1) : 10 * n - 5 < a /\ a < 10 * n + 5
                                    /\ 10 * n - 5 < b /\ b < 10 * n + 5

\* some boundary 10n + 5 strictly between a and b
BoundaryBetween(a, b) ==
    \E n \in 0..((a + b) \div 10) : (a < 10 * n + 5 /\ 10 * n + 5 < b)
                                    \/ (b < 10 * n + 5 /\ 10 * n + 5 < a)

\* C9 amended: every word is in exactly one Line; words whose tops lie strictly
\* inside one interval (n/10 - 0.05, n/10 + 0.05) share a Line; words with a
\* boundary n/10 + 0.05 strictly between their tops are in different Lines
\* however close they are; words whose tops differ by more than 0.1 never share
\* a Line.
C9_RoundingCells ==
    gpc = "done" =>
        /\ \A k \in 1..Len(words) : Cardinality(LinesHolding(k)) = 1
        /\ \A j, k \in 1..Len(words) :
              /\ SameCell(words[j].top, words[k].top) => SameLine(j, k)
              /\ BoundaryBetween(words[j].top, words[k].top) => ~SameLine(j, k)
              /\ Dist(words[j].top, words[k].top) > 10 => ~SameLine(j, k)

\* tops 0.04, 0.06 and 0.14: the first word alone, the other two together
C9_Witness ==
    /\ gpc = "done"
    /\ Len(words) = 3
    /\ words[1].top = 4 /\ words[2].top = 6 /\ words[3].top = 14
    /\ words[2].x0 = 30 /\ words[3].x0 = 50
    /\ Len(glines) = 2
    /\ glines[1].text = <<"a">>
    /\ glines[2].text = <<"b", " ", "c">>

(***************************************************************************)
(* The command-line driver: main, lines 342-410                            *)
(*                                                                         *)
(* The file system, the PDF reader and the container writer are the        *)
(* environment: whether the input exists, what extract_text_from_pdf       *)
(* returns or that it raises, and whether epub.write_epub raises.          *)
(* exit_code is -1 while main runs.                                        *)
(***************************************************************************)
\* what a PDF page can hold in a run of main
MainPageParagraphs == {<<>>, << <<"a">> >>}

\* --chapter-pages is any int: negative, zero, positive
MainChapterPages == -1..MaxChapterPages

MainInit ==
    /\ mpc = "check_input"
    /\ input_exists \in BOOLEAN
    /\ suffix_is_pdf \in BOOLEAN
    /\ output_arg \in BOOLEAN
    /\ verbose \in BOOLEAN
    /\ writer_fails \in BOOLEAN
    /\ chapter_pages \in MainChapterPages
    /\ output_path = "unset"
    /\ extraction = "none"
    /\ assembly = "none"
    /\ exit_code = -1
    /\ stderr = <<>>
    /\ stdout = <<>>
    /\ calls = <<>>
    /\ output_file = "none"
    /\ pages = <<>> /\ ei = 0 /\ chapters = <<>>
    /\ spine = <<>> /\ toc = <<>> /\ book_items = <<>> /\ epc = "idle"

Exit(code) == mpc' = "exited" /\ exit_code' = code

\* CheckInput that reports a missing input and goes on
CheckInput_NoExit ==
    /\ mpc = "check_input"
    /\ calls' = Append(calls, "input_check")
    /\ stderr' = IF ~input_exists THEN Append(stderr, "Error: Input file not found")
                 ELSE IF ~suffix_is_pdf
                      THEN Append(stderr, "Warning: Input file may not be a PDF")
                      ELSE stderr
    /\ mpc' = "set_up"
    /\ UNCHANGED exit_code
    /\ UNCHANGED <<input_exists, suffix_is_pdf, output_arg, verbose, writer_fails,
                   output_path, extraction, assembly, stdout, output_file>>
    /\ UNCHANGED <<gVars, sVars, eVars, hVars>>

\* lines 344-351: the input must exist; a suffix other than .pdf only warns
CheckInput ==
    /\ mpc = "check_input"
    /\ calls' = Append(calls, "input_check")
    /\ IF ~input_exists
       THEN /\ stderr' = Append(stderr, "Error: Input file not found")
            /\ Exit(1)
       ELSE /\ stderr' = IF ~suffix_is_pdf
                         THEN Append(stderr, "Warning: Input file may not be a PDF")
                         ELSE stderr
            /\ mpc' = "set_up"
            /\ UNCHANGED exit_code
    /\ UNCHANGED <<input_exists, suffix_is_pdf, output_arg, verbose, writer_fails,
                   output_path, extraction, assembly, stdout, output_file>>
    /\ UNCHANGED <<gVars, sVars, eVars, hVars>>

\* lines 353-374: the output path, the title, the verbose banner
SetUp ==
    /\ mpc = "set_up"
    /\ output_path' = IF output_arg THEN "args.output" ELSE "input.epub"
    /\ stdout' = IF verbose THEN stdout \o <<"settings", "Extracting text from PDF...">>
                 ELSE stdout
    /\ mpc' = "extract"
    /\ UNCHANGED <<input_exists, suffix_is_pdf, output_arg, verbose, writer_fails,
                   extraction, assembly, exit_code, stderr, calls, output_file>>
    /\ UNCHANGED <<gVars, sVars, eVars, hVars>>

\* lines 376-380: extract_text_from_pdf returns the pages, or raises
Extract ==
    /\ mpc = "extract"
    /\ calls' = Append(calls, "extract_text_from_pdf")
    /\ \/ /\ extraction' = "raised"
          /\ stderr' = Append(stderr, "Error reading PDF")
          /\ Exit(1)
          /\ UNCHANGED pages
       \/ /\ extraction' = "returned"
          /\ pages' \in {MkPages(ps) : ps \in SeqsUpTo(MainPageParagraphs, MaxPages)}
          /\ mpc' = "check_pages"
          /\ UNCHANGED <<stderr, exit_code>>
    /\ UNCHANGED <<input_exists, suffix_is_pdf, output_arg, verbose, writer_fails,
                   output_path, assembly, stdout, output_file>>
    /\ UNCHANGED <<chapter_pages, ei, chapters, spine, toc, book_items, epc>>
    /\ UNCHANGED <<gVars, sVars, hVars>>

\* CheckPages without the exit on an empty document
CheckPages_NoExit ==
    /\ mpc = "check_pages"
    /\ calls' = Append(calls, "empty_check")
    /\ stdout' = IF verbose THEN stdout \o <<"Extracted pages", "Creating EPUB...">>
                 ELSE stdout
    /\ mpc' = "create"
    /\ UNCHANGED <<stderr, exit_code>>
    /\ UNCHANGED <<input_exists, suffix_is_pdf, output_arg, verbose, writer_fails,
                   output_path, extraction, assembly, output_file>>
    /\ UNCHANGED <<gVars, sVars, eVars, hVars>>

\* lines 382-391: a document without pages is an error
CheckPages ==
    /\ mpc = "check_pages"
    /\ calls' = Append(calls, "empty_check")
    /\ IF pages = <<>>
       THEN /\ stderr' = Append(stderr, "Error: No pages found in PDF")
            /\ Exit(1)
            /\ UNCHANGED stdout
       ELSE /\ stdout' = IF verbose
                         THEN stdout \o <<"Extracted pages", "Creating EPUB...">>
                         ELSE stdout
            /\ mpc' = "create"
            /\ UNCHANGED <<stderr, exit_code>>
    /\ UNCHANGED <<input_exists, suffix_is_pdf, output_arg, verbose, writer_fails,
                   output_path, extraction, assembly, output_file>>
    /\ UNCHANGED <<gVars, sVars, eVars, hVars>>

\* the chapters create_epub builds: range(0, len(pages), chapter_pages) is empty
\* for a negative step
MainChapters == IF chapter_pages < 0 THEN <<>> ELSE CreateEpubChapters(pages, chapter_pages)

\* lines 393-408: create_epub builds the book and writes it, or raises.
\* chapter_pages = 0 raises at line 159, before anything is written; a failing
\* epub.write_epub may leave a partial file.
CreateEpub ==
    /\ mpc = "create"
    /\ IF chapter_pages = 0
       THEN /\ calls' = Append(calls, "create_epub")
            /\ assembly' = "raised"
            /\ stderr' = Append(stderr, "Error creating EPUB")
            /\ Exit(1)
            /\ UNCHANGED <<chapters, spine, toc, book_items, output_file>>
       ELSE /\ calls' = calls \o <<"create_epub", "write_epub">>
            /\ chapters' = MainChapters
            /\ toc' = MainChapters
            /\ spine' = <<NavItem>> \o MainChapters
            /\ book_items' = MainChapters \o <<NcxItem, NavItem>>
            /\ IF writer_fails
               THEN /\ assembly' = "raised"
                    /\ output_file' \in {"none", "partial"}
                    /\ stderr' = Append(stderr, "Error creating EPUB")
                    /\ Exit(1)
               ELSE /\ assembly' = "returned"
                    /\ output_file' = output_path
                    /\ mpc' = "success"
                    /\ UNCHANGED <<stderr, exit_code>>
    /\ stdout' = IF verbose /\ chapter_pages # 0
                 THEN stdout \o <<"Writing EPUB">>
                          \o (IF writer_fails THEN <<>> ELSE <<"EPUB written successfully.">>)
                 ELSE stdout
    /\ UNCHANGED <<input_exists, suffix_is_pdf, output_arg, verbose, writer_fails,
                   output_path, extraction>>
    /\ UNCHANGED <<pages, chapter_pages, ei, epc>>
    /\ UNCHANGED <<gVars, sVars, hVars>>

\* line 410, then main returns: exit code 0
Success ==
    /\ mpc = "success"
    /\ stdout' = Append(stdout, "Successfully created: " \o output_path)
    /\ Exit(0)
    /\ UNCHANGED <<input_exists, suffix_is_pdf, output_arg, verbose, writer_fails,
                   output_path, extraction, assembly, stderr, calls, output_file>>
    /\ UNCHANGED <<gVars, sVars, eVars, hVars>>

InitMain == MainInit /\ GrouperIdle /\ SegmenterIdle /\ HtmlIdle
NextMain == CheckInput \/ SetUp \/ Extract \/ CheckPages \/ CreateEpub \/ Success
SpecMain == InitMain /\ [][NextMain]_vars

(***************************************************************************)
(* Claims about main                                                       *)
(***************************************************************************)
Range(q) == {q[k] : k \in 1..Len(q)}

\* the output path main announces: --output, or the input with suffix .epub
ExpectedOutputPath == IF output_arg THEN "args.output" ELSE "input.epub"

SuccessMessage == "Successfully created: " \o ExpectedOutputPath

\* the four failures of a run
RunFailed ==
    \/ ~input_exists
    \/ extraction = "raised"
    \/ (extraction = "returned" /\ pages = <<>>)
    \/ assembly = "raised"

StepOrder ==
    <<"input_check", "extract_text_from_pdf", "empty_check", "create_epub", "write_epub">>

\* C8: the steps of a run occur in the order input check, extraction,
\* empty-document check, assembly and write, each at most once; extraction is
\* never started when the input is missing; create_epub and epub.write_epub are
\* never invoked, and no output file is written, when the input is missing,
\* extraction raised or extraction returned no page.
C8_StepOrder ==
    /\ Len(calls) <= Len(StepOrder)
    /\ calls = SubSeq(StepOrder, 1, Len(calls))
    /\ ~input_exists => "extract_text_from_pdf" \notin Range(calls)
    /\ (\/ ~input_exists
        \/ extraction = "raised"
        \/ (extraction = "returned" /\ pages = <<>>)) =>
          /\ "create_epub" \notin Range(calls)
          /\ "write_epub" \notin Range(calls)
          /\ output_file = "none"

\* a run that stopped at the empty-document check
C8_Witness ==
    /\ mpc = "exited" /\ exit_code = 1
    /\ input_exists /\ extraction = "returned" /\ pages = <<>>
    /\ calls = <<"input_check", "extract_text_from_pdf", "empty_check">>
    /\ output_file = "none"

=============================================================================
